---------------------------- MODULE Spec2Model ----------------------------
(***************************************************************************)
(* Model of the two Lambda entry points of the Jewelers quoting backend:   *)
(*   backend/quote_api.py      handler, _response                          *)
(*   backend/compute_quote.py  handler                                     *)
(*                                                                         *)
(* Each handler is a sequential process whose position is a pc.  A handler *)
(* is run once per observability backend (library absent, present and      *)
(* succeeding, present and raising) on the same input, so that the effect  *)
(* of the backend on the result can be compared.  The two handlers share   *)
(* no state; one invocation (of either handler) is analysed at a time.     *)
(*                                                                         *)
(* Python values are tagged records.  JSON text is a string; json.dumps    *)
(* builds the text and json.loads inverts it over the documents of the     *)
(* model.  Floats are decimal: a finite float is a number of hundredths.   *)
(***************************************************************************)
EXTENDS Integers, Sequences, FiniteSets, TLC

VARIABLES
    running,      \* "none", "api" or "calc": the handler that was invoked
    apiEvent,     \* the API Gateway event (a dict)
    apiEnv,       \* os.environ (a dict)
    apiWf,        \* how sf.start_sync_execution behaves for this request
    apiPc,        \* per backend: position of quote_api.handler
    apiData,      \* per backend: local `data` (parsed body)
    apiResp,      \* per backend: local `resp` (start_sync_execution result)
    apiOutput,    \* per backend: local `output_data`
    apiResult,    \* per backend: how the invocation ended
    apiTrace,     \* per backend: the steps executed so far, in order
    apiCalls,     \* per backend: the inputs handed to start_sync_execution
    apiMetrics,   \* per backend: samples the backend accepted
    calcEvent,    \* the Quote Calculator's event payload
    calcPc,       \* per backend: position of compute_quote.handler
    calcPremium,  \* per backend: local `premium`
    calcResult,   \* per backend: how the invocation ended
    calcMetrics   \* per backend: samples the backend accepted

apiVars  == <<apiEvent, apiEnv, apiWf, apiPc, apiData, apiResp, apiOutput,
              apiResult, apiTrace, apiCalls, apiMetrics>>
calcVars == <<calcEvent, calcPc, calcPremium, calcResult, calcMetrics>>
vars     == <<running, apiVars, calcVars>>

-----------------------------------------------------------------------------
(* Python / JSON values *)

None        == [t |-> "null"]
PyBool(b)   == [t |-> "bool", b |-> b]
\* a Python int n * 10^e (e > 0 only for integers too large for a TLC number)
PyInt(n)    == [t |-> "int", n |-> n, e |-> 0]
PyBigInt(n, e) == [t |-> "int", n |-> n, e |-> e]
\* a finite float of h hundredths, or inf / -inf / nan
PyFloat(h)  == [t |-> "float", k |-> "fin", h |-> h]
PyInf       == [t |-> "float", k |-> "inf", h |-> 0]
PyNegInf    == [t |-> "float", k |-> "-inf", h |-> 0]
PyNaN       == [t |-> "float", k |-> "nan", h |-> 0]
PyStr(s)    == [t |-> "str", s |-> s]
PyList(q)   == [t |-> "list", elems |-> q]
\* a dict, as its items in insertion order: << <<key, value>>, ... >>
PyDict(q)   == [t |-> "dict", items |-> q]

IsDict(v)   == v.t = "dict"
IsNumber(v) == v.t \in {"int", "float"}

\* dict.get(key) (default None)
RECURSIVE ItemsGet(_, _, _)
ItemsGet(items, key, default) ==
    IF items = <<>> THEN default
    ELSE IF Head(items)[1] = key THEN Head(items)[2]
    ELSE ItemsGet(Tail(items), key, default)

DictGet(d, key) == ItemsGet(d.items, key, None)
DictGetDefault(d, key, default) == ItemsGet(d.items, key, default)
HasKey(d, key) == \E i \in 1..Len(d.items) : d.items[i][1] = key

\* Python truthiness (bool(v)); `not v` is ~Truthy(v)
Truthy(v) ==
    CASE v.t = "null"  -> FALSE
      [] v.t = "bool"  -> v.b
      [] v.t = "int"   -> v.n # 0
      [] v.t = "float" -> ~(v.k = "fin" /\ v.h = 0)
      [] v.t = "str"   -> v.s # ""
      [] v.t = "list"  -> v.elems # <<>>
      [] v.t = "dict"  -> v.items # <<>>

-----------------------------------------------------------------------------
(* Text of numbers *)

RECURSIVE Zeros(_)
Zeros(k) ==
    IF k = 0 THEN ""
    ELSE LET half == Zeros(k \div 2)
         IN  half \o half \o (IF k % 2 = 1 THEN "0" ELSE "")

Abs(n) == IF n < 0 THEN -n ELSE n

\* repr of an int
IntText(v) == IF v.n = 0 THEN "0" ELSE ToString(v.n) \o Zeros(v.e)

\* repr of a finite float of h hundredths: 5000 -> "50.0", 999 -> "9.99"
FiniteText(h) ==
    LET a == Abs(h)
        frac == a % 100
    IN  (IF h < 0 THEN "-" ELSE "") \o ToString(a \div 100) \o "." \o
        (IF frac % 10 = 0 THEN ToString(frac \div 10)
         ELSE IF frac < 10 THEN "0" \o ToString(frac)
         ELSE ToString(frac))

\* float.__repr__
FloatRepr(v) ==
    CASE v.k = "fin"  -> FiniteText(v.h)
      [] v.k = "inf"  -> "inf"
      [] v.k = "-inf" -> "-inf"
      [] v.k = "nan"  -> "nan"

-----------------------------------------------------------------------------
(* json.dumps (default separators ", " and ": ") *)

RECURSIVE JsonDumps(_), DumpElems(_), DumpItems(_)
JsonDumps(v) ==
    CASE v.t = "null"  -> "null"
      [] v.t = "bool"  -> IF v.b THEN "true" ELSE "false"
      [] v.t = "int"   -> IntText(v)
      [] v.t = "float" -> (CASE v.k = "fin"  -> FiniteText(v.h)
                             [] v.k = "inf"  -> "Infinity"
                             [] v.k = "-inf" -> "-Infinity"
                             [] v.k = "nan"  -> "NaN")
      [] v.t = "str"   -> "\"" \o v.s \o "\""
      [] v.t = "list"  -> "[" \o DumpElems(v.elems) \o "]"
      [] v.t = "dict"  -> "{" \o DumpItems(v.items) \o "}"
DumpElems(q) ==
    IF q = <<>> THEN ""
    ELSE JsonDumps(Head(q)) \o (IF Tail(q) = <<>> THEN "" ELSE ", " \o DumpElems(Tail(q)))
DumpItems(q) ==
    IF q = <<>> THEN ""
    ELSE "\"" \o Head(q)[1] \o "\": " \o JsonDumps(Head(q)[2]) \o
         (IF Tail(q) = <<>> THEN "" ELSE ", " \o DumpItems(Tail(q)))


-----------------------------------------------------------------------------
(* The documents of the model and json.loads *)

Absent == [t |-> "absent"]
Field(key, v) == IF v = Absent THEN <<>> ELSE << <<key, v>> >>

ValidName  == PyStr("Alice")
ValidEmail == PyStr("alice@example.com")
ValidValue == PyInt(5000)

NameChoices  == {Absent, None, PyStr(""), PyInt(0), ValidName}
EmailChoices == {Absent, None, PyStr(""), ValidEmail}
ValueChoices == {Absent, None, PyStr(""), PyInt(0), PyBool(FALSE), PyFloat(0), ValidValue}

QuoteRequest(n, e, v) == PyDict(Field("name", n) \o Field("email", e) \o Field("value", v))

\* request bodies that are JSON objects: at most one field departs from the
\* valid request, plus the empty object, a request of name and email only and a
\* valid request carrying a fourth field
RequestObjects ==
    {QuoteRequest(n, ValidEmail, ValidValue) : n \in NameChoices}
    \cup {QuoteRequest(ValidName, e, ValidValue) : e \in EmailChoices}
    \cup {QuoteRequest(ValidName, ValidEmail, v) : v \in ValueChoices}
    \cup {PyDict(<<>>),
          QuoteRequest(ValidName, PyStr("a@x.com"), Absent),
          PyDict(QuoteRequest(ValidName, ValidEmail, ValidValue).items
                 \o << <<"coupon", PyStr("X")>> >>)}

\* request bodies that are JSON but not an object
RequestNonObjects == {PyList(<<>>), PyInt(5), None, PyStr("Alice")}

\* outputs of the workflow that are JSON
OutputObjects ==
    {PyDict(<< <<"quote", q>> >>) :
        q \in {PyFloat(5000), PyInt(50), PyInt(0), PyFloat(0), None, PyStr("abc"),
               PyBool(FALSE), PyList(<<>>)}}
    \cup {PyDict(<<>>), PyDict(<< <<"premium", PyFloat(5000)>> >>),
          PyDict(<< <<"name", ValidName>>, <<"quote", PyFloat(999)>> >>),
          PyDict(<< <<"quote", PyFloat(999)>> >>)}
OutputNonObjects == {PyList(<<>>), PyInt(5), None}

\* bodies of the error responses
MessageTexts ==
    {"Invalid JSON payload", "Missing name, email or value", "Server not configured",
     "Failed to start workflow: timeout",
     "Failed to start workflow: No output from workflow",
     "No output from workflow", "Malformed workflow output",
     "Workflow did not return a quote"}
MessageDocs == {PyDict(<< <<"message", PyStr(text)>> >>) : text \in MessageTexts}

JsonDocs ==
    RequestObjects \cup RequestNonObjects \cup OutputObjects \cup OutputNonObjects
    \cup MessageDocs

NotJson == "not json"

\* the text of every document
JsonText == [v \in JsonDocs |-> JsonDumps(v)]

\* json.loads(text): the document whose text it is, or JSONDecodeError
JsonLoads(text) ==
    IF \E v \in JsonDocs : JsonText[v] = text
    THEN [ok |-> TRUE, value |-> CHOOSE v \in JsonDocs : JsonText[v] = text]
    ELSE [ok |-> FALSE, value |-> None]

\* API Gateway events: no body key, a null body, an empty body, text that is
\* not JSON, and the text of every request document
Events ==
    {PyDict(<<>>), PyDict(<< <<"body", None>> >>)}
    \cup {PyDict(<< <<"body", PyStr(text)>> >>) :
            text \in {"", NotJson}
                     \cup {JsonDumps(d) : d \in RequestObjects \cup RequestNonObjects}}

Arn == "arn:aws:states:us-east-1:123456789012:stateMachine:quote"

\* os.environ: STATE_MACHINE_ARN unset, set to the empty string, set
Environs ==
    {PyDict(<<>>),
     PyDict(<< <<"STATE_MACHINE_ARN", PyStr("")>> >>),
     PyDict(<< <<"STATE_MACHINE_ARN", PyStr(Arn)>> >>)}

\* behaviours of sf.start_sync_execution: it raises with an error text, or
\* returns a response with or without an output
WfRaises(text)  == [k |-> "raise", text |-> text, resp |-> None]
WfReturns(resp) == [k |-> "return", text |-> "", resp |-> resp]
Workflows ==
    {WfRaises("timeout"), WfRaises("No output from workflow"),
     WfReturns(PyDict(<< <<"status", PyStr("FAILED")>> >>)),
     WfReturns(PyDict(<< <<"status", PyStr("SUCCEEDED")>>, <<"output", None>> >>))}
    \cup {WfReturns(PyDict(<< <<"status", PyStr("SUCCEEDED")>>, <<"output", PyStr(text)>> >>)) :
            text \in {"", NotJson}
                     \cup {JsonDumps(d) : d \in OutputObjects \cup OutputNonObjects}}

\* the observability library: not importable, working, raising on emission
Backends == {"absent", "ok", "raises"}

\* the runs of a handler against the three backends are independent of one
\* another; they are taken one after the other, in this order
BackendOrder == <<"absent", "ok", "raises">>
Turn(pc, m) ==
    \A i \in 1..Len(BackendOrder) :
        BackendOrder[i] = m => \A j \in 1..(i - 1) : pc[BackendOrder[j]] = "done"


-----------------------------------------------------------------------------
(* quote_api.py *)

NoResult          == [kind |-> "none"]
Returned(value)   == [kind |-> "return", value |-> value]
Raised(exc)       == [kind |-> "raise", exc |-> exc]

\* _response(status, body)
Response(status, body) ==
    [statusCode |-> status,
     headers    |-> ("Content-Type" :> "application/json"
                     @@ "Access-Control-Allow-Origin" :> "*"),
     body       |-> JsonDumps(body)]

Message(text) == PyDict(<< <<"message", PyStr(text)>> >>)

\* one accepted sample
Sample(name, value, tags) == [name |-> name, value |-> value, tags |-> tags]

ApiInit ==
    /\ apiEvent   = PyDict(<<>>)
    /\ apiEnv     = PyDict(<<>>)
    /\ apiWf      = WfRaises("")
    /\ apiPc      = [m \in Backends |-> "idle"]
    /\ apiData    = [m \in Backends |-> None]
    /\ apiResp    = [m \in Backends |-> None]
    /\ apiOutput  = [m \in Backends |-> None]
    /\ apiResult  = [m \in Backends |-> NoResult]
    /\ apiTrace   = [m \in Backends |-> <<>>]
    /\ apiCalls   = [m \in Backends |-> <<>>]
    /\ apiMetrics = [m \in Backends |-> <<>>]

\* the position moves on, and the step is recorded
ApiGoto(m, step, next) ==
    /\ apiPc'    = [apiPc EXCEPT ![m] = next]
    /\ apiTrace' = [apiTrace EXCEPT ![m] = Append(@, step)]
    /\ UNCHANGED apiResult

\* the handler ends: `return value`
ApiReturn(m, step, value) ==
    /\ apiPc'     = [apiPc EXCEPT ![m] = "done"]
    /\ apiTrace'  = [apiTrace EXCEPT ![m] = Append(@, step)]
    /\ apiResult' = [apiResult EXCEPT ![m] = Returned(value)]

\* the handler ends by an exception that nothing catches
ApiRaise(m, step, exc) ==
    /\ apiPc'     = [apiPc EXCEPT ![m] = "done"]
    /\ apiTrace'  = [apiTrace EXCEPT ![m] = Append(@, step)]
    /\ apiResult' = [apiResult EXCEPT ![m] = Raised(exc)]

\* API Gateway invokes handler(event, context); the same request is handed
\* to one handler per backend
ApiInvoke(event, env, wf) ==
    /\ running = "none"
    /\ running'  = "api"
    /\ apiEvent' = event
    /\ apiEnv'   = env
    /\ apiWf'    = wf
    /\ apiPc'    = [m \in Backends |-> "metric"]
    /\ UNCHANGED <<apiData, apiResp, apiOutput, apiResult, apiTrace, apiCalls,
                   apiMetrics, calcVars>>

\* what lambda_metric raises when the backend fails
EmissionError == "Exception"

\* lines 42-46 without the try/except: the failure of the emission ends the handler
ApiEmitMetricUnguarded(m) ==
    /\ apiPc[m] = "metric" /\ Turn(apiPc, m)
    /\ IF m = "absent"
       THEN /\ apiPc' = [apiPc EXCEPT ![m] = "parse"]
            /\ UNCHANGED <<apiTrace, apiResult, apiMetrics>>
       ELSE IF m = "ok"
       THEN /\ ApiGoto(m, "emit", "parse")
            /\ apiMetrics' = [apiMetrics EXCEPT ![m] =
                    Append(@, Sample("quote.request", PyInt(1),
                                     <<"app:jewelers-mutual-clone">>))]
       ELSE /\ ApiRaise(m, "emit", EmissionError)
            /\ UNCHANGED apiMetrics
    /\ UNCHANGED <<running, apiEvent, apiEnv, apiWf, apiData, apiResp, apiOutput,
                   apiCalls, calcVars>>

\* lines 42-46: the "request received" sample, when the library was imported
ApiEmitMetric(m) ==
    /\ apiPc[m] = "metric" /\ Turn(apiPc, m)
    /\ IF m = "absent"
       THEN /\ apiPc' = [apiPc EXCEPT ![m] = "parse"]
            /\ UNCHANGED <<apiTrace, apiResult, apiMetrics>>
       ELSE /\ ApiGoto(m, "emit", "parse")
            /\ IF m = "ok"
               THEN apiMetrics' = [apiMetrics EXCEPT ![m] =
                        Append(@, Sample("quote.request", PyInt(1),
                                         <<"app:jewelers-mutual-clone">>))]
               ELSE UNCHANGED apiMetrics   \* except Exception: pass
    /\ UNCHANGED <<running, apiEvent, apiEnv, apiWf, apiData, apiResp, apiOutput,
                   apiCalls, calcVars>>

\* event.get("body") or "{}"
BodyOf(event) ==
    LET b == DictGet(event, "body") IN IF Truthy(b) THEN b ELSE PyStr("{}")

\* lines 49-53: parse the body
ApiParseBody(m) ==
    /\ apiPc[m] = "parse" /\ Turn(apiPc, m)
    /\ LET parsed == JsonLoads(BodyOf(apiEvent).s)
       IN  IF ~parsed.ok
           THEN /\ ApiReturn(m, "parse", Response(400, Message("Invalid JSON payload")))
                /\ UNCHANGED apiData
           ELSE /\ ApiGoto(m, "parse", "validate")
                /\ apiData' = [apiData EXCEPT ![m] = parsed.value]
    /\ UNCHANGED <<running, apiEvent, apiEnv, apiWf, apiResp, apiOutput, apiCalls,
                   apiMetrics, calcVars>>

\* not name or not email or value is None
FieldsMissing(data) ==
    \/ ~Truthy(DictGet(data, "name"))
    \/ ~Truthy(DictGet(data, "email"))
    \/ DictGet(data, "value") = None

\* lines 56-60: the required fields
ApiValidate(m) ==
    /\ apiPc[m] = "validate" /\ Turn(apiPc, m)
    /\ IF ~IsDict(apiData[m])
       THEN ApiRaise(m, "validate", "AttributeError")      \* data.get
       ELSE IF FieldsMissing(apiData[m])
       THEN ApiReturn(m, "validate", Response(400, Message("Missing name, email or value")))
       ELSE ApiGoto(m, "validate", "config")
    /\ UNCHANGED <<running, apiEvent, apiEnv, apiWf, apiData, apiResp, apiOutput,
                   apiCalls, apiMetrics, calcVars>>

\* lines 63-65: the workflow identifier
ApiConfig(m) ==
    /\ apiPc[m] = "config" /\ Turn(apiPc, m)
    /\ IF ~Truthy(DictGet(apiEnv, "STATE_MACHINE_ARN"))
       THEN ApiReturn(m, "config", Response(500, Message("Server not configured")))
       ELSE ApiGoto(m, "config", "invoke")
    /\ UNCHANGED <<running, apiEvent, apiEnv, apiWf, apiData, apiResp, apiOutput,
                   apiCalls, apiMetrics, calcVars>>

\* lines 68-72: input_payload
InputPayload(data) ==
    PyDict(<< <<"name", DictGet(data, "name")>>,
              <<"email", DictGet(data, "email")>>,
              <<"value", DictGet(data, "value")>> >>)

\* one call of sf.start_sync_execution
Call(arn, input) == [stateMachineArn |-> arn, input |-> input]

\* lines 67-81: the synchronous execution of the workflow.  The call is
\* recorded with its arguments; boto3.client takes region and credentials
\* from the Lambda runtime, and json.dumps of values that json.loads gave
\* does not fail.
ApiStartSyncExecution(m) ==
    /\ apiPc[m] = "invoke" /\ Turn(apiPc, m)
    /\ apiCalls' = [apiCalls EXCEPT ![m] =
            Append(@, Call(DictGet(apiEnv, "STATE_MACHINE_ARN").s,
                           JsonDumps(InputPayload(apiData[m]))))]
    /\ IF apiWf.k = "raise"
       THEN /\ ApiReturn(m, "invoke",
                    Response(500, Message("Failed to start workflow: " \o apiWf.text)))
            /\ UNCHANGED apiResp
       ELSE /\ ApiGoto(m, "invoke", "output")
            /\ apiResp' = [apiResp EXCEPT ![m] = apiWf.resp]
    /\ UNCHANGED <<running, apiEvent, apiEnv, apiWf, apiData, apiOutput, apiMetrics,
                   calcVars>>

\* lines 84-90: the output of the workflow
ApiParseOutput(m) ==
    /\ apiPc[m] = "output" /\ Turn(apiPc, m)
    /\ LET output_str == DictGet(apiResp[m], "output")
       IN  IF ~Truthy(output_str)
           THEN /\ ApiReturn(m, "output", Response(500, Message("No output from workflow")))
                /\ UNCHANGED apiOutput
           ELSE LET parsed == JsonLoads(output_str.s)
                IN  IF ~parsed.ok
                    THEN /\ ApiReturn(m, "output",
                                Response(500, Message("Malformed workflow output")))
                         /\ UNCHANGED apiOutput
                    ELSE /\ ApiGoto(m, "output", "quote")
                         /\ apiOutput' = [apiOutput EXCEPT ![m] = parsed.value]
    /\ UNCHANGED <<running, apiEvent, apiEnv, apiWf, apiData, apiResp, apiCalls,
                   apiMetrics, calcVars>>

\* lines 92-96 with `if not quote`: a quote of 0 is taken for a missing one
ApiRelayQuoteFalsy(m) ==
    /\ apiPc[m] = "quote" /\ Turn(apiPc, m)
    /\ IF ~IsDict(apiOutput[m])
       THEN ApiRaise(m, "quote", "AttributeError")
       ELSE LET quote == DictGet(apiOutput[m], "quote")
            IN  IF ~Truthy(quote)
                THEN ApiReturn(m, "quote",
                        Response(500, Message("Workflow did not return a quote")))
                ELSE ApiReturn(m, "quote", Response(200, PyDict(<< <<"quote", quote>> >>)))
    /\ UNCHANGED <<running, apiEvent, apiEnv, apiWf, apiData, apiResp, apiOutput,
                   apiCalls, apiMetrics, calcVars>>

\* lines 92-96: the quote
ApiRelayQuote(m) ==
    /\ apiPc[m] = "quote" /\ Turn(apiPc, m)
    /\ IF ~IsDict(apiOutput[m])
       THEN ApiRaise(m, "quote", "AttributeError")         \* output_data.get
       ELSE LET quote == DictGet(apiOutput[m], "quote")
            IN  IF quote = None
                THEN ApiReturn(m, "quote",
                        Response(500, Message("Workflow did not return a quote")))
                ELSE ApiReturn(m, "quote", Response(200, PyDict(<< <<"quote", quote>> >>)))
    /\ UNCHANGED <<running, apiEvent, apiEnv, apiWf, apiData, apiResp, apiOutput,
                   apiCalls, apiMetrics, calcVars>>


-----------------------------------------------------------------------------
(* compute_quote.py *)

\* finite floats of the model run over -MaxHundredths..MaxHundredths hundredths
MaxHundredths == 60
\* decimal exponent of the large integers of the model
BigExponent == 400
\* the largest decimal exponent of a finite double (sys.float_info.max_10_exp)
FloatMax10Exp == 308

\* v * 0.01 has a third decimal of exactly 5: the double nearest to the
\* product decides which way round() goes
IsTie(h) == h % 100 = 50

CalcInts ==
    {PyInt(n) : n \in {-5000, -1, 0, 1, 999, 5000}}
    \cup {PyBigInt(1, BigExponent), PyBigInt(-1, BigExponent)}
CalcFloats ==
    {PyFloat(h) : h \in {x \in -MaxHundredths..MaxHundredths : ~IsTie(x)}}
    \cup {PyFloat(500000), PyFloat(99900), PyFloat(-500000), PyInf, PyNegInf, PyNaN}
CalcStrings ==
    {PyStr(text) : text \in {"", "abc", "5000", "-100", "0.49", "nan", "inf", "five",
                             IntText(PyBigInt(1, BigExponent))}}
CalcOthers == {Absent, None, PyBool(TRUE), PyBool(FALSE), PyList(<<>>), PyDict(<<>>)}

CalcValues == CalcInts \cup CalcFloats \cup CalcStrings \cup CalcOthers

CalcEvents ==
    {QuoteRequest(n, e, v) :
        n \in {Absent, None, ValidName}, e \in {Absent, ValidEmail}, v \in CalcValues}

\* the text of every float and int
FloatText   == [x \in CalcFloats |-> FloatRepr(x)]
IntegerText == [i \in CalcInts |-> IntText(i)]

Converted(x) == [ok |-> TRUE, x |-> x, exc |-> ""]
Failed(exc)  == [ok |-> FALSE, x |-> PyFloat(0), exc |-> exc]

\* float(n) of an int: OverflowError beyond the range of a double
IntToFloat(v) ==
    IF v.n # 0 /\ v.e > FloatMax10Exp
    THEN Failed("OverflowError")
    ELSE Converted(PyFloat(v.n * 100))

\* float(s) of a str: the text of a float or of an int, else ValueError;
\* a decimal too large for a double gives inf
StrToFloat(v) ==
    IF \E x \in CalcFloats : FloatText[x] = v.s
    THEN Converted(CHOOSE x \in CalcFloats : FloatText[x] = v.s)
    ELSE IF \E i \in CalcInts : IntegerText[i] = v.s
    THEN LET i == CHOOSE j \in CalcInts : IntegerText[j] = v.s
         IN  IF i.n # 0 /\ i.e > FloatMax10Exp
             THEN Converted(IF i.n > 0 THEN PyInf ELSE PyNegInf)
             ELSE Converted(PyFloat(i.n * 100))
    ELSE Failed("ValueError")

\* float(value)
ToFloat(v) ==
    CASE v.t = "float" -> Converted(v)
      [] v.t = "int"   -> IntToFloat(v)
      [] v.t = "bool"  -> Converted(PyFloat(IF v.b THEN 100 ELSE 0))
      [] v.t = "str"   -> StrToFloat(v)
      [] OTHER         -> Failed("TypeError")

\* round(x * 0.01, 2): x of h hundredths is h ten-thousandths after the
\* product, rounded to the nearest hundredth (IsTie values are not inputs)
Premium(x) ==
    IF x.k = "fin" THEN PyFloat((x.h + 50) \div 100) ELSE x

\* lines 57-61: numeric_value, by try/except (TypeError, ValueError)
NumericValue(event) ==
    LET c == ToFloat(DictGet(event, "value"))
    IN  IF c.ok THEN c
        ELSE IF c.exc \in {"TypeError", "ValueError"} THEN Converted(PyFloat(0))
        ELSE c

\* str() of a value inside an f-string
Format(v) ==
    CASE v.t = "str"   -> v.s
      [] v.t = "null"  -> "None"
      [] v.t = "bool"  -> IF v.b THEN "True" ELSE "False"
      [] v.t = "float" -> FloatRepr(v)
      [] OTHER         -> JsonDumps(v)

CalcInit ==
    /\ calcEvent   = PyDict(<<>>)
    /\ calcPc      = [m \in Backends |-> "idle"]
    /\ calcPremium = [m \in Backends |-> PyFloat(0)]
    /\ calcResult  = [m \in Backends |-> NoResult]
    /\ calcMetrics = [m \in Backends |-> <<>>]

\* the workflow invokes handler(event, context); the same event is handed to
\* one handler per backend
CalcInvoke(event) ==
    /\ running = "none"
    /\ running'   = "calc"
    /\ calcEvent' = event
    /\ calcPc'    = [m \in Backends |-> "compute"]
    /\ UNCHANGED <<calcPremium, calcResult, calcMetrics, apiVars>>

\* lines 57-64: the value and the premium
CalcCompute(m) ==
    /\ calcPc[m] = "compute" /\ Turn(calcPc, m)
    /\ LET c == NumericValue(calcEvent)
       IN  IF c.ok
           THEN /\ calcPremium' = [calcPremium EXCEPT ![m] = Premium(c.x)]
                /\ calcPc' = [calcPc EXCEPT ![m] = "metric"]
                /\ UNCHANGED calcResult
           ELSE /\ calcResult' = [calcResult EXCEPT ![m] = Raised(c.exc)]
                /\ calcPc' = [calcPc EXCEPT ![m] = "done"]
                /\ UNCHANGED calcPremium
    /\ UNCHANGED <<running, calcEvent, calcMetrics, apiVars>>

\* lines 69-81: the premium sample, when the library was imported
CalcEmitMetric(m) ==
    /\ calcPc[m] = "metric" /\ Turn(calcPc, m)
    /\ calcPc' = [calcPc EXCEPT ![m] = "return"]
    /\ IF m = "ok"
       THEN calcMetrics' = [calcMetrics EXCEPT ![m] =
                Append(@, Sample("quote.premium", calcPremium[m],
                    <<"app:jewelers-mutual-clone",
                      "customer:" \o Format(DictGetDefault(calcEvent, "name",
                                                           PyStr("unknown")))>>))]
       ELSE UNCHANGED calcMetrics    \* no library, or except Exception: pass
    /\ UNCHANGED <<running, calcEvent, calcPremium, calcResult, apiVars>>

\* line 83: return {"quote": premium}
CalcReturn(m) ==
    /\ calcPc[m] = "return" /\ Turn(calcPc, m)
    /\ calcPc' = [calcPc EXCEPT ![m] = "done"]
    /\ calcResult' = [calcResult EXCEPT ![m] =
            Returned(PyDict(<< <<"quote", calcPremium[m]>> >>))]
    /\ UNCHANGED <<running, calcEvent, calcPremium, calcMetrics, apiVars>>

-----------------------------------------------------------------------------
(* The system *)

Init == running = "none" /\ ApiInit /\ CalcInit

Next ==
    \/ \E event \in Events, env \in Environs, wf \in Workflows : ApiInvoke(event, env, wf)
    \/ \E m \in Backends : ApiEmitMetric(m)
    \/ \E m \in Backends : ApiParseBody(m)
    \/ \E m \in Backends : ApiValidate(m)
    \/ \E m \in Backends : ApiConfig(m)
    \/ \E m \in Backends : ApiStartSyncExecution(m)
    \/ \E m \in Backends : ApiParseOutput(m)
    \/ \E m \in Backends : ApiRelayQuote(m)
    \/ \E event \in CalcEvents : CalcInvoke(event)
    \/ \E m \in Backends : CalcCompute(m)
    \/ \E m \in Backends : CalcEmitMetric(m)
    \/ \E m \in Backends : CalcReturn(m)

Spec == Init /\ [][Next]_vars


-----------------------------------------------------------------------------
(* Properties of quote_api.handler *)

ApiDone(m)     == apiPc[m] = "done"
ApiReturned(m) == ApiDone(m) /\ apiResult[m].kind = "return"
ApiStatus(m)   == apiResult[m].value.statusCode
\* the response of status and message text, as the client receives it
Replied(m, status, text) ==
    /\ ApiReturned(m)
    /\ ApiStatus(m) = status
    /\ JsonLoads(apiResult[m].value.body) = [ok |-> TRUE, value |-> Message(text)]

\* the request as sent: the body, read as JSON (no body is an empty object)
Request == JsonLoads(BodyOf(apiEvent).s)
\* a field of the request is absent or falsy / absent or null
AbsentOrFalsy(doc, key) == IF IsDict(doc) THEN ~Truthy(DictGet(doc, key)) ELSE TRUE
AbsentOrNull(doc, key)  == IF IsDict(doc) THEN DictGet(doc, key) = None ELSE TRUE
Incomplete(doc) ==
    AbsentOrFalsy(doc, "name") \/ AbsentOrFalsy(doc, "email") \/ AbsentOrNull(doc, "value")
Configured == HasKey(apiEnv, "STATE_MACHINE_ARN") /\ DictGet(apiEnv, "STATE_MACHINE_ARN").s # ""

\* the workflow's output, when it returned one that is not empty
HasOutput ==
    /\ apiWf.k = "return"
    /\ HasKey(apiWf.resp, "output")
    /\ DictGet(apiWf.resp, "output") \notin {None, PyStr("")}
Output == JsonLoads(DictGet(apiWf.resp, "output").s)

\* the steps of the handler after the sample, in the stated order
StatedOrder == <<"parse", "validate", "config", "invoke", "output", "quote">>
StepsOf(m) == SelectSeq(apiTrace[m], LAMBDA step : step # "emit")
IsPrefix(p, q) == Len(p) <= Len(q) /\ SubSeq(q, 1, Len(p)) = p
Invoked(m) == Len(apiCalls[m]) > 0

\* C1: every invocation of the API handler ends in a returned response of
\* status 200, 400 or 500, whatever the body and whatever the workflow call
\* does; the handler never ends by raising.
C1_TerminalOutcome ==
    \A m \in Backends :
        ApiDone(m) => /\ apiResult[m].kind = "return"
                      /\ ApiStatus(m) \in {200, 400, 500}

\* C2: the steps run in the stated order and the earliest failing step alone
\* decides the response: an unparseable body gives 400 "Invalid JSON payload"
\* before any field check; a missing name, email or value gives 400 "Missing
\* name, email or value" whether or not the workflow identifier is
\* configured; a missing identifier gives 500 "Server not configured"; the
\* workflow is invoked at most once, only after the three earlier steps
\* passed, and never for a request answered with 400 or "Server not
\* configured".
C2_StepOrder ==
    \A m \in Backends :
        /\ IsPrefix(StepsOf(m), StatedOrder)
        /\ Len(apiCalls[m]) <= 1
        /\ Invoked(m) => Request.ok /\ ~Incomplete(Request.value) /\ Configured
        /\ ApiDone(m) =>
            /\ ~Request.ok => Replied(m, 400, "Invalid JSON payload")
                              /\ StepsOf(m) = <<"parse">>
            /\ Request.ok /\ Incomplete(Request.value) =>
                    Replied(m, 400, "Missing name, email or value")
                    /\ StepsOf(m) = <<"parse", "validate">>
            /\ Request.ok /\ ~Incomplete(Request.value) /\ ~Configured =>
                    Replied(m, 500, "Server not configured")
                    /\ StepsOf(m) = <<"parse", "validate", "config">>
            /\ (ApiReturned(m) /\ (ApiStatus(m) = 400
                                   \/ Replied(m, 500, "Server not configured")))
                    => ~Invoked(m)

\* what of C2 holds as stated: for every body that is not JSON or is a JSON
\* object, the order of the steps and the responses of C2
ObjectBodiesFollowStepOrder ==
    (Request.ok => IsDict(Request.value)) => C2_StepOrder

\* C3: the handler returns 200 exactly when the request passed validation,
\* the workflow identifier is configured, the invocation returned and its
\* output parses to an object with a non-null quote q; the body is then the
\* JSON text of {quote: q}, q unchanged, and the workflow received exactly
\* {name, email, value} of the request as its input.
SuccessCase ==
    /\ Request.ok /\ IsDict(Request.value) /\ ~Incomplete(Request.value)
    /\ Configured
    /\ HasOutput
    /\ Output.ok /\ IsDict(Output.value) /\ DictGet(Output.value, "quote") # None
C3_SuccessExactly ==
    \A m \in Backends :
        ApiDone(m) =>
            /\ (ApiReturned(m) /\ ApiStatus(m) = 200) <=> SuccessCase
            /\ SuccessCase =>
                /\ LET sent == JsonLoads(apiResult[m].value.body)
                   IN  /\ sent.ok
                       /\ sent.value.items
                            = << <<"quote", DictGet(Output.value, "quote")>> >>
                /\ DictGet(apiWf.resp, "output") = PyStr("{\"quote\": 50.0}")
                        => apiResult[m].value.body = "{\"quote\": 50.0}"
                /\ Len(apiCalls[m]) = 1
                /\ apiCalls[m][1].stateMachineArn = Arn
                /\ LET input == JsonLoads(apiCalls[m][1].input)
                   IN  /\ input.ok
                       /\ input.value.items
                            = << <<"name",  DictGet(Request.value, "name")>>,
                                 <<"email", DictGet(Request.value, "email")>>,
                                 <<"value", DictGet(Request.value, "value")>> >>
\* a valid request whose workflow returned {"quote": 50.0} was answered 200
C3_Witness ==
    \E m \in Backends :
        /\ ApiReturned(m) /\ ApiStatus(m) = 200
        /\ Request.value = QuoteRequest(ValidName, ValidEmail, ValidValue)
        /\ apiResult[m].value.body = "{\"quote\": 50.0}"

\* C4: every downstream failure is a 500 whose message names it: the call
\* raising with text e gives "Failed to start workflow: e"; no output gives
\* "No output from workflow"; output that is not JSON gives "Malformed
\* workflow output"; parsed output without a quote gives "Workflow did not
\* return a quote"; and "Failed to start workflow" is returned if and only if
\* the call raised.
C4_DownstreamFailures ==
    \A m \in Backends :
        (ApiDone(m) /\ Invoked(m)) =>
            /\ apiWf.k = "raise" =>
                    Replied(m, 500, "Failed to start workflow: " \o apiWf.text)
            /\ (apiWf.k = "return" /\ ~HasKey(apiWf.resp, "output")) =>
                    Replied(m, 500, "No output from workflow")
            /\ (HasOutput /\ ~Output.ok) =>
                    Replied(m, 500, "Malformed workflow output")
            /\ (HasOutput /\ Output.ok /\ AbsentOrNull(Output.value, "quote")) =>
                    Replied(m, 500, "Workflow did not return a quote")
            /\ (\E text \in {"timeout", "No output from workflow"} :
                    Replied(m, 500, "Failed to start workflow: " \o text))
                    <=> apiWf.k = "raise"

\* what of C4 holds as stated: the messages of C4 for every output that is
\* absent, not JSON or a JSON object
ObjectOutputsAreSurfaced ==
    ((HasOutput /\ Output.ok) => IsDict(Output.value)) => C4_DownstreamFailures

\* C5: the handler goes past validation only for requests whose name and
\* email are present and not empty and whose value is present and not null;
\* every request with an absent or falsy name or email, or an absent or null
\* value, is answered 400 "Missing name, email or value" and goes no further.
PastValidation(m) == \E i \in 1..Len(apiTrace[m]) : apiTrace[m][i] \in {"config", "invoke"}
C5_ValidationGate ==
    \A m \in Backends :
        /\ PastValidation(m) => Request.ok /\ ~Incomplete(Request.value)
        /\ (ApiDone(m) /\ Request.ok /\ Incomplete(Request.value)) =>
                /\ Replied(m, 400, "Missing name, email or value")
                /\ ~PastValidation(m)

\* what of C5 holds as stated: the gate, for every body that is a JSON object
ObjectBodiesAreGated ==
    (Request.ok => IsDict(Request.value)) => C5_ValidationGate
\* a value of "", 0, 0.0 or false is not null: such a request is invoked
FalsyValuesPass ==
    \A m \in Backends :
        (ApiDone(m) /\ Request.ok /\ IsDict(Request.value) /\ Configured
         /\ Truthy(DictGet(Request.value, "name")) /\ Truthy(DictGet(Request.value, "email"))
         /\ HasKey(Request.value, "value")
         /\ DictGet(Request.value, "value")
                \in {PyStr(""), PyInt(0), PyFloat(0), PyBool(FALSE)})
            => Invoked(m)

\* C6: every response has a statusCode, the two headers and a JSON body that
\* is {"quote": number} when the status is 200 and {"message": string} when
\* it is 400 or 500.
C6_ResponseShape ==
    \A m \in Backends :
        ApiReturned(m) =>
            LET r    == apiResult[m].value
                sent == JsonLoads(r.body)
            IN  /\ DOMAIN r = {"statusCode", "headers", "body"}
                /\ r.statusCode \in {200, 400, 500}
                /\ DOMAIN r.headers = {"Content-Type", "Access-Control-Allow-Origin"}
                /\ r.headers["Content-Type"] = "application/json"
                /\ r.headers["Access-Control-Allow-Origin"] = "*"
                /\ sent.ok /\ IsDict(sent.value) /\ Len(sent.value.items) = 1
                /\ r.statusCode = 200 =>
                        /\ sent.value.items[1][1] = "quote"
                        /\ IsNumber(sent.value.items[1][2])
                /\ r.statusCode \in {400, 500} =>
                        /\ sent.value.items[1][1] = "message"
                        /\ sent.value.items[1][2].t = "str"

\* what of C6 holds as stated: the shape, whenever the workflow's quote is a
\* number
NumericQuotesKeepShape ==
    ((HasOutput /\ Output.ok /\ IsDict(Output.value)
        /\ ~IsNumber(DictGet(Output.value, "quote"))
        /\ DictGet(Output.value, "quote") # None) => FALSE)
    => C6_ResponseShape


-----------------------------------------------------------------------------
(* Observability *)

Count(q, x) == Cardinality({i \in 1..Len(q) : q[i] = x})

\* C7: the result of either handler is the same whether the observability
\* library is absent, working or raising on emission, and no emission failure
\* reaches the caller; in the API handler the "request received" sample is
\* attempted once, before the body is parsed, for every request, those
\* answered 400 included.
C7_BackendIndependent ==
    /\ \A m1, m2 \in Backends :
        /\ (ApiDone(m1) /\ ApiDone(m2)) =>
                apiResult[m1] = apiResult[m2] /\ apiCalls[m1] = apiCalls[m2]
        /\ (calcPc[m1] = "done" /\ calcPc[m2] = "done") =>
                calcResult[m1] = calcResult[m2]
    /\ \A m \in Backends :
        /\ ApiDone(m) => apiResult[m] # Raised(EmissionError)
        /\ calcPc[m] = "done" => calcResult[m] # Raised(EmissionError)
        /\ (m # "absent" /\ apiPc[m] \notin {"idle", "metric"}) =>
                /\ apiTrace[m][1] = "emit"
                /\ Count(apiTrace[m], "emit") = 1
        /\ (m = "ok" /\ apiPc[m] \notin {"idle", "metric"}) =>
                Len(apiMetrics[m]) = 1 /\ apiMetrics[m][1].name = "quote.request"
\* the same request, answered 400, ran against all three backends; with the
\* raising backend the sample was attempted and the answer is the same
C7_Witness ==
    /\ \A m \in Backends : ApiDone(m)
    /\ apiTrace["raises"][1] = "emit"
    /\ apiMetrics["raises"] = <<>>
    /\ Replied("raises", 400, "Missing name, email or value")
    /\ apiResult["absent"] = apiResult["raises"]

-----------------------------------------------------------------------------
(* Properties of compute_quote.handler *)

CalcDone(m)     == calcPc[m] = "done"
CalcReturned(m) == CalcDone(m) /\ calcResult[m].kind = "return"
Value           == DictGet(calcEvent, "value")
QuoteOf(m)      == DictGet(calcResult[m].value, "quote")
ZeroQuote       == PyDict(<< <<"quote", PyFloat(0)>> >>)

\* the value is missing or is no number and no text of a number
NotConvertible ==
    \/ Value.t \in {"null", "list", "dict"}
    \/ Value.t = "str" /\ Value.s \in {"", "abc", "five"}
\* the value is an integer beyond the range of a double
IsHuge == Value.t = "int" /\ Value.e > 0 /\ Value.n # 0
\* the value is a number that is not negative
NumericNonNegative ==
    \/ Value.t = "int" /\ Value.n >= 0
    \/ Value.t = "float" /\ (Value.k = "inf" \/ (Value.k = "fin" /\ Value.h >= 0))

\* C8: the Quote Calculator never fails: for a value of any type and any
\* magnitude it returns, and the result is {"quote": 0.0} whenever the value
\* is missing or not convertible to a number.
C8_NeverFails ==
    \A m \in Backends :
        CalcDone(m) =>
            /\ calcResult[m].kind = "return"
            /\ NotConvertible => calcResult[m].value = ZeroQuote

\* what of C8 holds as stated: every value but the integers beyond the range
\* of a double
RepresentableValuesNeverFail == ~IsHuge => C8_NeverFails

\* C9: for every numeric value >= 0 the result is {"quote": p} with p the
\* value times 0.01 rounded to 2 fractional digits (5000 gives 50.0, 999
\* gives 9.99), whatever the name and email of the payload.
C9_OnePercent ==
    \A m \in Backends :
        (CalcDone(m) /\ NumericNonNegative) =>
            /\ calcResult[m].kind = "return"
            /\ DOMAIN calcResult[m].value.items = {1}
            /\ Value.t = "int" /\ ~IsHuge => QuoteOf(m) = PyFloat(Value.n)
            /\ Value.t = "float" /\ Value.k = "fin" =>
                    /\ QuoteOf(m).k = "fin"
                    /\ Abs(100 * QuoteOf(m).h - Value.h) < 50
            /\ Value = PyInf => QuoteOf(m) = PyInf
            /\ Value = PyInt(5000) => JsonDumps(calcResult[m].value) = "{\"quote\": 50.0}"
            /\ Value = PyInt(999) => JsonDumps(calcResult[m].value) = "{\"quote\": 9.99}"

\* what of C9 holds as stated: every value but the integers beyond the range
\* of a double
RepresentableValuesGetOnePercent == ~IsHuge => C9_OnePercent

\* C10: the quote of every result of the Quote Calculator is >= 0, also for
\* a negative value and for a text that converts to a negative number.
C10_NonNegative ==
    \A m \in Backends :
        CalcReturned(m) =>
            \/ QuoteOf(m).k = "inf"
            \/ QuoteOf(m).k = "fin" /\ QuoteOf(m).h >= 0

\* what of C10 holds as stated: the values that are not negative and not nan
NonNegativeValuesGetNonNegativeQuotes ==
    (NotConvertible \/ NumericNonNegative \/ Value.t = "bool"
        \/ (Value.t = "str" /\ Value.s \in {"5000", "0.49", "inf"}))
    => C10_NonNegative

=============================================================================
